---- MODULE Spec2Model ----
(***************************************************************************)
(* Model of api/strava-ics.ts: the serverless handler that exchanges a     *)
(* refresh token, pages through the athlete's activities with an optional  *)
(* sport filter and a cap, and serialises the result as an ICS document.   *)
(*                                                                         *)
(* Texts (JavaScript strings) are sequences of atoms.  The atoms that the  *)
(* code treats specially (backslash, newline, carriage return, comma,      *)
(* semicolon, space, digits, dot, sign) are single characters; every other *)
(* atom stands for a run of plain characters.                              *)
(***************************************************************************)
EXTENDS Integers, Sequences, FiniteSets, TLC

(* ------------------------------ bounds --------------------------------- *)
\* activities the athlete's account holds inside the time window
MaxRecords == 4
\* records the upstream puts on one page
MaxBatch == 2
\* length of the texts the escape round trip is tried on
MaxLen == 3

(* ------------------------- program constants --------------------------- *)
per_page == 200
MaxClamp == 600
MinClamp == 1
DefaultMax == 300

(* ------------------------------ texts ---------------------------------- *)
BS == "\\"
NL == "\n"
CR == "\r"
COMMA == ","
SEMI == ";"
SP == " "
CRLF == <<CR, NL>>

RECURSIVE Join(_, _)
\* Array.prototype.join: the elements with sep between them, "" for []
Join(parts, sep) ==
  IF parts = <<>> THEN <<>>
  ELSE IF Len(parts) = 1 THEN parts[1]
  ELSE parts[1] \o sep \o Join(Tail(parts), sep)

\* Array.prototype.filter(Boolean) on an array of strings: drops ""
FilterBoolean(parts) == SelectSeq(parts, LAMBDA t : t # <<>>)

\* a || b on strings
OrElse(a, b) == IF a # <<>> THEN a ELSE b

RECURSIVE ReplaceAll(_, _, _)
\* String.prototype.replace(/c/g, r): one left-to-right pass
ReplaceAll(text, c, r) ==
  IF text = <<>> THEN <<>>
  ELSE (IF Head(text) = c THEN r ELSE <<Head(text)>>) \o ReplaceAll(Tail(text), c, r)

\* icsEscape with the backslash pass last: doubles the backslashes that the
\* other passes have just inserted
icsEscapeBackslashLast(text) ==
  ReplaceAll(ReplaceAll(ReplaceAll(ReplaceAll(text, NL, <<BS, "n">>),
                                   COMMA, <<BS, COMMA>>),
                        SEMI, <<BS, SEMI>>),
             BS, <<BS, BS>>)

icsEscape(text) ==
  ReplaceAll(ReplaceAll(ReplaceAll(ReplaceAll(text, BS, <<BS, BS>>),
                                   NL, <<BS, "n">>),
                        COMMA, <<BS, COMMA>>),
             SEMI, <<BS, SEMI>>)

LowerAtom(c) ==
  CASE c = "Run" -> "run"
    [] c = "Ride" -> "ride"
    [] c = "VirtualRide" -> "virtualride"
    [] OTHER -> c

\* String.prototype.toLowerCase
toLowerCase(text) == [i \in 1..Len(text) |-> LowerAtom(text[i])]

RECURSIVE TrimStart(_)
TrimStart(text) ==
  IF text # <<>> /\ Head(text) = SP THEN TrimStart(Tail(text)) ELSE text

RECURSIVE TrimEnd(_)
TrimEnd(text) ==
  IF text # <<>> /\ text[Len(text)] = SP
  THEN TrimEnd(SubSeq(text, 1, Len(text) - 1)) ELSE text

\* String.prototype.trim
trim(text) == TrimEnd(TrimStart(text))

\* String.prototype.split(sep) for a separator that cannot overlap itself
\* (",", ".", CRLF): the pieces between the occurrences of sep
split(text, sep) ==
  LET n == Len(sep)
      at == SelectSeq([i \in 1..Len(text) |-> i],
                      LAMBDA i : i + n - 1 <= Len(text) /\ SubSeq(text, i, i + n - 1) = sep)
      first(k) == IF k = 1 THEN 1 ELSE at[k - 1] + n
      last(k) == IF k = Len(at) + 1 THEN Len(text) ELSE at[k] - 1
  IN [k \in 1..(Len(at) + 1) |-> SubSeq(text, first(k), last(k))]

(* ----------------------------- numbers --------------------------------- *)
\* A JavaScript number: NaN, or the decimal fraction num/den (den a power of 10)
NaN == [nan |-> TRUE, num |-> 0, den |-> 1]
Num(n) == [nan |-> FALSE, num |-> n, den |-> 1]

DigitVal ==
  ("0" :> 0) @@ ("1" :> 1) @@ ("2" :> 2) @@ ("3" :> 3) @@ ("4" :> 4) @@
  ("5" :> 5) @@ ("6" :> 6) @@ ("7" :> 7) @@ ("8" :> 8) @@ ("9" :> 9)

IsDigits(text) == \A i \in 1..Len(text) : text[i] \in DOMAIN DigitVal

RECURSIVE DigitsValue(_)
DigitsValue(text) ==
  IF text = <<>> THEN 0
  ELSE DigitsValue(SubSeq(text, 1, Len(text) - 1)) * 10 + DigitVal[text[Len(text)]]

RECURSIVE Pow10(_)
Pow10(n) == IF n = 0 THEN 1 ELSE 10 * Pow10(n - 1)

\* Number(s) for a string s: "" is 0, an optionally signed decimal literal is
\* its value, anything else is NaN
StringToNumber(text) ==
  LET t == trim(text)
      signed == t # <<>> /\ Head(t) \in {"-", "+"}
      sign == IF signed /\ Head(t) = "-" THEN -1 ELSE 1
      body == IF signed THEN Tail(t) ELSE t
      parts == split(body, <<".">>)
  IN IF t = <<>> THEN Num(0)
     ELSE IF Len(parts) = 1 /\ parts[1] # <<>> /\ IsDigits(parts[1])
          THEN Num(sign * DigitsValue(parts[1]))
     ELSE IF Len(parts) = 2 /\ parts[1] \o parts[2] # <<>>
             /\ IsDigits(parts[1]) /\ IsDigits(parts[2])
          THEN [nan |-> FALSE,
                num |-> sign * DigitsValue(parts[1] \o parts[2]),
                den |-> Pow10(Len(parts[2]))]
     ELSE NaN

\* a < b, a >= b, a > b on numbers: false as soon as one side is NaN
Less(a, b) == ~a.nan /\ ~b.nan /\ a.num * b.den < b.num * a.den
GreaterEq(a, b) == ~a.nan /\ ~b.nan /\ a.num * b.den >= b.num * a.den
Greater(a, b) == Less(b, a)

MathMin(a, b) == IF a.nan \/ b.nan THEN NaN ELSE IF Less(b, a) THEN b ELSE a
MathMax(a, b) == IF a.nan \/ b.nan THEN NaN ELSE IF Less(a, b) THEN b ELSE a

(* ---------------------------- activities -------------------------------- *)
\* The record shapes the upstream serves (StravaActivity without its id):
\* a run with every field set, a ride that has only the deprecated `type`
\* and no name, and a virtual ride whose sport_type differs from its type.
Kinds ==
  { [name |-> <<"Morning", COMMA, SP, "Run">>, sport_type |-> <<"Run">>,
     type |-> <<"Run">>, location_city |-> <<"Vienna">>, elevation |-> TRUE],
    [name |-> <<>>, sport_type |-> <<>>,
     type |-> <<"Ride">>, location_city |-> <<>>, elevation |-> FALSE],
    [name |-> <<"Zwift">>, sport_type |-> <<"VirtualRide">>,
     type |-> <<"Ride">>, location_city |-> <<>>, elevation |-> TRUE] }

\* the activity of kind k that the upstream lists at position id
Activity(id, k) ==
  [id |-> id, name |-> k.name, sport_type |-> k.sport_type, type |-> k.type,
   location_city |-> k.location_city, elevation |-> k.elevation]

IdText(a) == <<ToString(a.id)>>

\* handler, line 183: the type/sport classification in lower case, read
\* from `type` alone
SportOfTypeOnly(a) == toLowerCase(a.type)

\* handler, line 183
SportOf(a) == toLowerCase(OrElse(OrElse(a.sport_type, a.type), <<>>))

\* handler, line 184: `continue` unless the record passes the allow-list
Kept(a, allowedSports) ==
  ~allowedSports.defined
  \/ \E i \in 1..Len(allowedSports.list) : allowedSports.list[i] = SportOf(a)

(* ----------------------------- documents ------------------------------- *)
buildEvent(a) ==
  LET summary == <<"Strava: ">> \o OrElse(a.name, a.sport_type)
      url == <<"https://www.strava.com/activities/">> \o IdText(a)
      descParts ==
        << <<"Sport: ">> \o OrElse(a.sport_type, a.type),
           <<"Distance: ", "km(distance)", " km">>,
           <<"Moving: ", "hms(moving_time)">>,
           <<"Elapsed: ", "hms(elapsed_time)">> >>
        \o (IF a.elevation THEN << <<"Elevation: ", "round(gain)", " m">> >> ELSE <<>>)
        \o << url >>
      description == icsEscape(Join(descParts, <<NL>>))
      uid == IdText(a) \o <<"@strava-ics">>
      location ==
        IF a.location_city # <<>>
        THEN icsEscape(Join(FilterBoolean(<<a.location_city>>), <<COMMA, SP>>))
        ELSE <<>>
  IN Join(FilterBoolean(
            << <<"BEGIN:VEVENT">>,
               <<"UID:">> \o uid,
               <<"DTSTAMP:", "utc(now)">>,
               <<"DTSTART:", "utc(start)">>,
               <<"DTEND:", "utc(start+elapsed)">>,
               <<"SUMMARY:">> \o icsEscape(summary),
               IF location # <<>> THEN <<"LOCATION:">> \o location ELSE <<>>,
               <<"DESCRIPTION:">> \o description,
               <<"URL:">> \o url,
               <<"END:VEVENT">> >>),
          CRLF)

\* the fixed header lines of the 200 document, lines 198-205
HeaderLines ==
  << <<"BEGIN:VCALENDAR">>,
     <<"VERSION:2.0">>,
     <<"PRODID:", "-//NexClass//Strava ICS//EN">>,
     <<"NAME:", "Strava">>,
     <<"X-WR-CALNAME:", "Strava">>,
     <<"CALSCALE:GREGORIAN">>,
     <<"METHOD:PUBLISH">>,
     <<"X-WR-TIMEZONE:UTC">> >>

\* handler, lines 195-208
BuildIcs(acts) ==
  LET events == Join([i \in 1..Len(acts) |-> buildEvent(acts[i])], CRLF)
  IN Join(HeaderLines \o << events, <<"END:VCALENDAR">> >>, CRLF)

\* the template literal of the catch block, line 214
ErrorDocument(message) ==
  <<"BEGIN:VCALENDAR">> \o CRLF \o
  <<"PRODID:-//Strava ICS Error//EN">> \o CRLF \o
  <<"VERSION:2.0">> \o CRLF \o
  <<"BEGIN:VEVENT">> \o CRLF \o
  <<"SUMMARY:Strava ICS Error">> \o CRLF \o
  <<"DESCRIPTION:">> \o icsEscape(OrElse(message, <<"Error">>)) \o CRLF \o
  <<"DTSTART:", "utc(now)">> \o CRLF \o
  <<"DTEND:", "utc(now+600000)">> \o CRLF \o
  <<"END:VEVENT">> \o CRLF \o
  <<"END:VCALENDAR">>

\* jfetch, line 22: the message of the error thrown on a non-ok response
FetchErrorMessage(status, body) == <<status, SP, "statusText", ":", SP>> \o body

MissingEnvMessage == <<"Missing STRAVA env vars">>

(* ------------------------------ inputs --------------------------------- *)
\* a query parameter or environment variable that is not set
Undefined == [kind |-> "undefined", items |-> <<>>]
Str(text) == [kind |-> "string", items |-> <<text>>]
Arr(texts) == [kind |-> "array", items |-> texts]

\* process.env: each variable unset, empty or set
EnvValues == { Undefined, Str(<<>>), Str(<<"secret">>) }

\* req.query.max: absent, empty, an integer in range, a fraction, not a
\* number, an integer out of range
MaxParams ==
  { Undefined, Str(<<>>), Str(<<"2">>), Str(<<"1", ".", "5">>),
    Str(<<"a", "b", "c">>), Str(<<"7", "0", "0">>) }

\* req.query.sport: absent, empty, a comma-separated list, a repeated parameter
SportParams ==
  { Undefined, Str(<<>>), Str(<<"Run", COMMA, SP, "ride", SP>>),
    Arr(<< <<"run">>, <<"virtualride">> >>) }

\* the status and body of a non-ok upstream response
ErrorResponses ==
  { <<"401", <<>> >>,
    <<"429", <<"Rate Limit Exceeded", COMMA, NL, "retry", SEMI, BS, "n">> >> }

\* the texts the escape round trip is tried on
Alphabet == { BS, NL, COMMA, SEMI, "n", "a" }
Texts == UNION { [1..k -> Alphabet] : k \in 0..MaxLen }

(* ------------------------------- state --------------------------------- *)
VARIABLES
  env,            \* process.env: STRAVA_CLIENT_ID, _SECRET, _REFRESH_TOKEN
  query,          \* req.query: max, sport
  pc,             \* where the handler is: start, token, page, done (off: no run)
  allowedSports,  \* handler local, line 163
  max,            \* handler local, line 168
  page,           \* handler local, line 171
  activities,     \* handler local, line 173
  response,       \* what res.status(..).send(..) was given; status 0: nothing yet
  net,            \* every fetch() issued and every response to it, in order
  fetched,        \* every record the upstream has returned, in order
  lastError,      \* the message of the error the catch block received
  escPc,          \* the escape round trip: idle, in, escaped, back
  escText,        \* its input
  escOut,         \* icsEscape of the input
  escBack         \* the unescaping of escOut

vars ==
  << env, query, pc, allowedSports, max, page, activities, response, net,
     fetched, lastError, escPc, escText, escOut, escBack >>

escVars == << escPc, escText, escOut, escBack >>
handlerVars ==
  << env, query, pc, allowedSports, max, page, activities, response, net,
     fetched, lastError >>

NoResponse == [status |-> 0, body |-> <<>>]

TokenSend == [op |-> "token", ev |-> "send", page |-> 0, held |-> 0, size |-> 0]
TokenDone(ev) == [op |-> "token", ev |-> ev, page |-> 0, held |-> 0, size |-> 0]
PageSend(p, acts) ==
  [op |-> "page", ev |-> "send", page |-> p, held |-> Len(acts), size |-> 0]
PageDone(ev, p, acts, n) ==
  [op |-> "page", ev |-> ev, page |-> p, held |-> Len(acts), size |-> n]

Init ==
  /\ env \in [ {"STRAVA_CLIENT_ID", "STRAVA_CLIENT_SECRET", "STRAVA_REFRESH_TOKEN"}
               -> EnvValues ]
  /\ query \in [ max : MaxParams, sport : SportParams ]
  /\ pc = "start"
  /\ allowedSports = [defined |-> FALSE, list |-> <<>>]
  /\ max = NaN
  /\ page = 0
  /\ activities = <<>>
  /\ response = NoResponse
  /\ net = <<>>
  /\ fetched = <<>>
  /\ lastError = <<>>
  /\ escPc = "idle"
  /\ escText = <<>>
  /\ escOut = <<>>
  /\ escBack = <<>>

(* ------------------------------ handler -------------------------------- *)
\* !x for an environment variable or query parameter
Falsy(v) == v.kind = "undefined" \/ (v.kind = "string" /\ v.items[1] = <<>>)

\* getAccessToken, line 32, with the refresh token left out of the test
MissingEnvNoRefresh(e) ==
  Falsy(e["STRAVA_CLIENT_ID"]) \/ Falsy(e["STRAVA_CLIENT_SECRET"])

\* getAccessToken, line 32
MissingEnv(e) ==
  Falsy(e["STRAVA_CLIENT_ID"]) \/ Falsy(e["STRAVA_CLIENT_SECRET"])
  \/ Falsy(e["STRAVA_REFRESH_TOKEN"])

\* the catch block answering with whatever has been accumulated
CatchPartial(message) == [status |-> 200, body |-> BuildIcs(activities)]

\* handler, lines 213-215: the catch block
Catch(message) == [status |-> 500, body |-> ErrorDocument(message)]

\* handler, lines 160-163
ParseSports(q) ==
  LET sportsParam == IF q.kind = "array" THEN Str(q.items[1]) ELSE q
  IN IF Falsy(sportsParam) THEN [defined |-> FALSE, list |-> <<>>]
     ELSE LET names == split(sportsParam.items[1], <<COMMA>>)
          IN [defined |-> TRUE,
              list |-> [i \in 1..Len(names) |-> toLowerCase(trim(names[i]))]]

\* Number(v ?? dflt) for a query parameter that is absent or one string
NumberOr(v, dflt) ==
  IF v.kind = "undefined" THEN Num(dflt) ELSE StringToNumber(v.items[1])

\* handler, line 168
ParseMax(q) ==
  MathMax(Num(MinClamp), MathMin(Num(MaxClamp), NumberOr(q, DefaultMax)))

\* the loop condition with <= for <
WhileCondLeq(acts, m) == ~m.nan /\ ~Greater(Num(Len(acts)), m)

\* handler, line 175: the condition of the while loop
WhileCond(acts, m) == Less(Num(Len(acts)), m)

RECURSIVE ProcessBatch(_, _, _, _)
\* handler, lines 181-186: the for loop over one batch
ProcessBatch(acts, batch, m, allowed) ==
  IF batch = <<>> THEN acts
  ELSE IF GreaterEq(Num(Len(acts)), m) THEN acts
  ELSE IF ~Kept(Head(batch), allowed) THEN ProcessBatch(acts, Tail(batch), m, allowed)
  ELSE ProcessBatch(Append(acts, Head(batch)), Tail(batch), m, allowed)

\* the page counter left where it is
NextPageSame(p) == p

\* handler, line 187
NextPage(p) == p + 1

\* handler, lines 175-212: the head of the while loop, reached with the
\* accumulator acts, the page counter p and the request log so far; either
\* the next page is requested or the document is built and sent
LoopHead(acts, p, m, log) ==
  /\ activities' = acts
  /\ page' = p
  /\ IF WhileCond(acts, m)
     THEN /\ pc' = "page"
          /\ net' = Append(log, PageSend(p, acts))
          /\ response' = response
     ELSE /\ pc' = "done"
          /\ net' = log
          /\ response' = [status |-> 200, body |-> BuildIcs(acts)]

\* handler -> getAccessToken, lines 29-34: a credential is missing; the
\* error is thrown before any fetch and the catch block answers
ConfigError ==
  /\ pc = "start"
  /\ MissingEnv(env)
  /\ pc' = "done"
  /\ lastError' = MissingEnvMessage
  /\ response' = Catch(MissingEnvMessage)
  /\ UNCHANGED << env, query, allowedSports, max, page, activities, net, fetched >>
  /\ UNCHANGED escVars

\* handler -> getAccessToken -> jfetch, lines 35-47 and 19: the token
\* exchange is issued
SendTokenRequest ==
  /\ pc = "start"
  /\ ~MissingEnv(env)
  /\ pc' = "token"
  /\ net' = Append(net, TokenSend)
  /\ UNCHANGED << env, query, allowedSports, max, page, activities, response,
                  fetched, lastError >>
  /\ UNCHANGED escVars

\* jfetch, lines 20-23, for the token exchange: a non-ok response
TokenFail ==
  /\ pc = "token"
  /\ \E r \in ErrorResponses :
       LET message == FetchErrorMessage(r[1], r[2])
       IN /\ lastError' = message
          /\ response' = Catch(message)
  /\ pc' = "done"
  /\ net' = Append(net, TokenDone("fail"))
  /\ UNCHANGED << env, query, allowedSports, max, page, activities, fetched >>
  /\ UNCHANGED escVars

\* lines 24, 48, 158-175: the token arrives, the query is parsed and the
\* loop is entered
TokenOk ==
  /\ pc = "token"
  /\ allowedSports' = ParseSports(query.sport)
  /\ max' = ParseMax(query.max)
  /\ LoopHead(<<>>, 1, max', Append(net, TokenDone("ok")))
  /\ UNCHANGED << env, query, fetched, lastError >>
  /\ UNCHANGED escVars

\* jfetch, lines 20-23, for a page: a non-ok response
PageFail ==
  /\ pc = "page"
  /\ \E r \in ErrorResponses :
       LET message == FetchErrorMessage(r[1], r[2])
       IN /\ lastError' = message
          /\ response' = Catch(message)
  /\ pc' = "done"
  /\ net' = Append(net, PageDone("fail", page, activities, 0))
  /\ UNCHANGED << env, query, allowedSports, max, page, activities, fetched >>
  /\ UNCHANGED escVars

\* lines 176-188 and on: a page arrives; the upstream hands out the next
\* records of the account, as many as it likes up to MaxBatch
PageOk ==
  /\ pc = "page"
  /\ \E n \in 0..MaxBatch :
       /\ Len(fetched) + n <= MaxRecords
       /\ \E ks \in [1..n -> Kinds] :
            LET batch == [i \in 1..n |-> Activity(Len(fetched) + i, ks[i])]
                log == Append(net, PageDone("ok", page, activities, n))
            IN /\ fetched' = fetched \o batch
               /\ IF batch = <<>>
                  THEN /\ pc' = "done"
                       /\ net' = log
                       /\ response' = [status |-> 200, body |-> BuildIcs(activities)]
                       /\ UNCHANGED << activities, page >>
                  ELSE LoopHead(ProcessBatch(activities, batch, max, allowedSports),
                                NextPage(page), max, log)
  /\ UNCHANGED << env, query, allowedSports, max, lastError >>
  /\ UNCHANGED escVars

Next ==
  \/ ConfigError
  \/ SendTokenRequest
  \/ TokenFail
  \/ TokenOk
  \/ PageFail
  \/ PageOk

Spec == Init /\ [][Next]_vars

(* ------------------------ escape round trip ---------------------------- *)
RECURSIVE icsUnescape(_)
\* RFC 5545, 3.3.11 TEXT: a backslash and the character after it stand for
\* one character; \n and \N are a newline
icsUnescape(text) ==
  IF text = <<>> THEN <<>>
  ELSE IF Head(text) = BS /\ Len(text) >= 2
       THEN <<(IF text[2] \in {"n", "N"} THEN NL ELSE text[2])>>
            \o icsUnescape(SubSeq(text, 3, Len(text)))
       ELSE <<Head(text)>> \o icsUnescape(Tail(text))

RECURSIVE RawChars(_)
\* the characters of an escaped text that no backslash escapes
RawChars(text) ==
  IF text = <<>> THEN {}
  ELSE IF Head(text) = BS /\ Len(text) >= 2
       THEN RawChars(SubSeq(text, 3, Len(text)))
       ELSE {Head(text)} \cup RawChars(Tail(text))

InitEscape ==
  /\ env = [k \in {"STRAVA_CLIENT_ID", "STRAVA_CLIENT_SECRET", "STRAVA_REFRESH_TOKEN"}
              |-> Undefined]
  /\ query = [max |-> Undefined, sport |-> Undefined]
  /\ pc = "off"
  /\ allowedSports = [defined |-> FALSE, list |-> <<>>]
  /\ max = NaN
  /\ page = 0
  /\ activities = <<>>
  /\ response = NoResponse
  /\ net = <<>>
  /\ fetched = <<>>
  /\ lastError = <<>>
  /\ escPc = "in"
  /\ escText \in Texts
  /\ escOut = <<>>
  /\ escBack = <<>>

\* icsEscape is applied to the text
EscapeStep ==
  /\ escPc = "in"
  /\ escOut' = icsEscape(escText)
  /\ escPc' = "escaped"
  /\ UNCHANGED << escText, escBack >>
  /\ UNCHANGED handlerVars

\* a calendar client reads the escaped text back
UnescapeStep ==
  /\ escPc = "escaped"
  /\ escBack' = icsUnescape(escOut)
  /\ escPc' = "back"
  /\ UNCHANGED << escText, escOut >>
  /\ UNCHANGED handlerVars

NextEscape ==
  \/ EscapeStep
  \/ UnescapeStep

SpecEscape == InitEscape /\ [][NextEscape]_vars

(* ----------------------- reading a response back ----------------------- *)
Lines(body) == split(body, CRLF)

VEventCount(body) == Len(SelectSeq(Lines(body), LAMBDA l : l = <<"BEGIN:VEVENT">>))

LinesOf(body, field) ==
  SelectSeq(Lines(body), LAMBDA l : l # <<>> /\ l[1] = field)

UidLine(a) == <<"UID:", ToString(a.id), "@strava-ics">>

Range(f) == { f[i] : i \in DOMAIN f }

Failed == \E i \in 1..Len(net) : net[i].ev = "fail"
EmptySeen == \E i \in 1..Len(net) : net[i].op = "page" /\ net[i].ev = "ok" /\ net[i].size = 0
LoopEntered == \E i \in 1..Len(net) : net[i].op = "token" /\ net[i].ev = "ok"
PageRequests == Cardinality({ i \in 1..Len(net) : net[i].op = "page" /\ net[i].ev = "send" })
TokenRequests == Cardinality({ i \in 1..Len(net) : net[i].op = "token" /\ net[i].ev = "send" })
NonEmptyPages ==
  Cardinality({ i \in 1..Len(net) : net[i].op = "page" /\ net[i].ev = "ok" /\ net[i].size > 0 })

\* the lowercased sport_type, falling back to type
Classification(a) == toLowerCase(IF a.sport_type # <<>> THEN a.sport_type ELSE a.type)

\* the record is let through by the allow-list of this request
InAllowList(a) == ~allowedSports.defined \/ Classification(a) \in Range(allowedSports.list)

Passing == SelectSeq(fetched, LAMBDA rec : InAllowList(rec))

AnyCredentialMissing ==
  \E k \in DOMAIN env : env[k].kind = "undefined" \/ env[k].items = << <<>> >>

\* the lines of the event blocks of these activities, in order
EventLines(acts) ==
  IF acts = <<>> THEN <<>>
  ELSE Lines(Join([i \in 1..Len(acts) |-> buildEvent(acts[i])], CRLF))

\* the smallest integer >= a / d, for a number a >= 0 and an integer d > 0
CeilDiv(a, d) == (a.num + a.den * d - 1) \div (a.den * d)

(* ------------------------------ claims --------------------------------- *)

\* C1: the accumulator never holds more activities than the effective cap,
\* and when more records than the cap pass the filter the 200 document has
\* exactly cap-many VEVENT blocks, those of the first passing records in
\* upstream order.
C1_CapEnforcement ==
  LoopEntered =>
    /\ ~Greater(Num(Len(activities)), max)
    /\ (response.status = 200 /\ Greater(Num(Len(Passing)), max)) =>
         /\ Num(VEventCount(response.body)) = max
         /\ LinesOf(response.body, "UID:")
              = [i \in 1..VEventCount(response.body) |-> UidLine(Passing[i])]

\* C2: the accumulated activities, and the events of the 200 document, are
\* the fetched records that the allow-list lets through, in upstream order
\* without repeats, cut short only once the cap is met; without an
\* allow-list nothing is dropped.
C2_FilterOrder ==
  /\ Len(activities) <= Len(Passing)
  /\ activities = SubSeq(Passing, 1, Len(activities))
  /\ Len(activities) < Len(Passing) => GreaterEq(Num(Len(activities)), max)
  /\ \A i, j \in 1..Len(activities) : i < j => activities[i].id < activities[j].id
  /\ query.sport.kind = "undefined" => Passing = fetched
  /\ response.status = 200 =>
       LinesOf(response.body, "UID:")
         = [i \in 1..Len(activities) |-> UidLine(activities[i])]

\* C2 witness: a 200 document for a request with an allow-list, in which a
\* dropped record lies between two kept ones.
C2_Witness ==
  /\ response.status = 200
  /\ allowedSports.defined
  /\ \E i, j \in 1..Len(activities) :
       /\ i < j
       /\ activities[j].id > activities[i].id + 1

\* C3: once the token exchange or a page fetch has failed, the run ends with
\* the degraded document: one VEVENT, no activity event, and a DESCRIPTION
\* that is the escaped error message; a 200 document comes only from a run
\* without a failure.
C3_AllOrNothing ==
  /\ Failed =>
       /\ pc = "done"
       /\ VEventCount(response.body) = 1
       /\ LinesOf(response.body, "UID:") = <<>>
       /\ \E r \in ErrorResponses : lastError = FetchErrorMessage(r[1], r[2])
       /\ LinesOf(response.body, "DESCRIPTION:")
            = << <<"DESCRIPTION:">> \o icsEscape(lastError) >>
  /\ response.status = 200 => ~Failed

\* C3 witness: a later page fails after activities have been accumulated.
C3_Witness ==
  /\ Failed
  /\ activities # <<>>
  /\ PageRequests >= 2
  /\ pc = "done"

\* C4: with a credential missing or empty the run issues no request at all
\* and ends with the configuration error.
C4_ConfigBeforeNetwork ==
  AnyCredentialMissing =>
    /\ net = <<>>
    /\ pc \in {"start", "done"}
    /\ pc = "done" =>
         /\ lastError = MissingEnvMessage
         /\ response = [status |-> 500, body |-> ErrorDocument(MissingEnvMessage)]

\* C4 witness: only the refresh token is missing and the run has ended.
C4_Witness ==
  /\ env["STRAVA_REFRESH_TOKEN"] = Undefined
  /\ env["STRAVA_CLIENT_ID"] # Undefined
  /\ env["STRAVA_CLIENT_SECRET"] # Undefined
  /\ pc = "done"
  /\ response.status = 500

\* C5: an empty page ends the fetch loop at once with what has been
\* accumulated, and a loop that ended without an error ended on an empty
\* page or on the cap being reached.
C5_PaginationTermination ==
  /\ EmptySeen =>
       /\ pc = "done"
       /\ net[Len(net)].ev = "ok" /\ net[Len(net)].size = 0
       /\ response = [status |-> 200, body |-> BuildIcs(activities)]
  /\ response.status = 200 =>
       EmptySeen \/ GreaterEq(Num(Len(activities)), max)

\* C6: the effective maxResults is an integer in [1, 600], 300 when the
\* parameter is absent; the accumulator never exceeds it and at least one
\* page is requested.
C6_MaxInRange ==
  LoopEntered =>
    /\ ~max.nan
    /\ max.den = 1
    /\ max.num >= MinClamp /\ max.num <= MaxClamp
    /\ query.max.kind = "undefined" => max = Num(DefaultMax)
    /\ Len(activities) <= max.num
    /\ PageRequests >= 1

\* C7: the 200 document is the header lines, then the lines of the event
\* blocks in the order received, then END:VCALENDAR; with no activity it is
\* the envelope alone, without an empty line.
C7_EmptyEnvelope ==
  response.status = 200 =>
    Lines(response.body)
      = HeaderLines \o EventLines(activities) \o << <<"END:VCALENDAR">> >>

\* C8: unescaping the escaped text gives the text back, and in the escaped
\* text no newline, comma or semicolon stands without a backslash before it.
C8_EscapeRoundTrip ==
  /\ escPc \in {"escaped", "back"} =>
       /\ NL \notin Range(escOut)
       /\ RawChars(escOut) \cap {NL, COMMA, SEMI} = {}
  /\ escPc = "back" => escBack = escText

\* C8 witness: a text with a backslash before an n, a newline and a comma
\* has made the round trip.
C8_Witness ==
  /\ escPc = "back"
  /\ escText = <<BS, "n", NL>>

\* C9: the page requests number at most maxResults / per_page, rounded up,
\* plus the one that finds the source exhausted: at most 3 by default.
C9_BoundedRequests ==
  (LoopEntered /\ ~max.nan) =>
    /\ PageRequests <= CeilDiv(max, per_page) + 1
    /\ query.max.kind = "undefined" => PageRequests <= 3

\* C9 as amended: every page request but the last was answered by a
\* non-empty page, and without an allow-list every such page adds an
\* activity, so that the requests number at most maxResults rounded up.
C9_RequestsBound ==
  /\ PageRequests <= NonEmptyPages + 1
  /\ (LoopEntered /\ ~allowedSports.defined) =>
       PageRequests <= (IF max.nan THEN 0 ELSE CeilDiv(max, 1))

\* C9 witness: without an allow-list and with max=2 two pages were requested.
C9_Witness ==
  /\ pc = "done"
  /\ ~allowedSports.defined
  /\ max = Num(2)
  /\ PageRequests = 2
  /\ NonEmptyPages = 2

\* C10: one token exchange, answered with success before page 1 is
\* requested; pages 1, 2, ... in order without gap or repeat; every request
\* answered before the next one is issued; page p+1 requested only after a
\* non-empty page p, and only with the cap unmet.
C10_RequestOrdering ==
  /\ TokenRequests <= 1
  /\ (pc = "done" /\ ~AnyCredentialMissing) => TokenRequests = 1
  /\ pc = "token" <=> (net # <<>> /\ net[Len(net)] = TokenSend)
  /\ pc = "page" <=> (net # <<>> /\ net[Len(net)].op = "page" /\ net[Len(net)].ev = "send")
  /\ \A i \in 1..Len(net) :
       /\ (net[i].ev = "send" /\ i < Len(net)) =>
            /\ net[i + 1].ev # "send"
            /\ net[i + 1].op = net[i].op
            /\ net[i + 1].page = net[i].page
       /\ net[i].ev # "send" => (i > 1 /\ net[i - 1].ev = "send")
       /\ (net[i].op = "page" /\ net[i].ev = "send") =>
            /\ Less(Num(net[i].held), max)
            /\ IF net[i].page = 1
               THEN i = 3 /\ net[1] = TokenSend /\ net[2] = TokenDone("ok")
               ELSE /\ i > 2
                    /\ net[i - 1].op = "page" /\ net[i - 1].ev = "ok"
                    /\ net[i - 1].size > 0
                    /\ net[i - 1].page = net[i].page - 1

\* C10 witness: page 3 has been requested.
C10_Witness ==
  \E i \in 1..Len(net) : net[i].op = "page" /\ net[i].ev = "send" /\ net[i].page = 3

(* ------------- the cap claims for a cap that is an integer ------------- *)
IntegerCap == ~max.nan /\ max.den = 1

\* C1 holds of every run whose effective cap is an integer
CapEnforcementIntegerCap == IntegerCap => C1_CapEnforcement

\* C5 holds of every run whose effective cap is a number
PaginationTerminationNumericCap == ~max.nan => C5_PaginationTermination

\* C7 holds of every 200 document with at least one event
EnvelopeNonEmpty == activities # <<>> => C7_EmptyEnvelope

====
